---- MODULE Spec2Model ----
(***************************************************************************)
(* Model of the two scripts of daily-script-manager.                       *)
(*                                                                         *)
(*   src/src/vscode-project.py  the project scaffolder: one invocation of  *)
(*       main() over a filesystem holding project directories and          *)
(*       workspace descriptors (specification Spec).                       *)
(*   src/src/match-reader.py    read_lines, a pure function of a file's    *)
(*       text and a predicate (specification SpecRead).                    *)
(*   create_project's name derivation on longer URLs (specification        *)
(*       SpecName).                                                        *)
(*                                                                         *)
(* Strings are sequences of one-character strings.  The configured         *)
(* repository root and workspace root are the path tokens "R" and "W".     *)
(* The environment can fail exactly where the code has a handler for it:   *)
(* the configuration file may be missing, unparsable or lack its keys, the *)
(* git command may exit non-zero, and rmtree / unlink may raise OSError.   *)
(***************************************************************************)
EXTENDS Integers, Sequences, FiniteSets, TLC

VARIABLES
    arg,        \* args.project: the positional CLI argument
    clean,      \* args.clean: the -c / --clean flag
    config,     \* state of config.ini next to the script
    pc,         \* position of the invocation
    kind,       \* the branch of main() the argument took
    name,       \* create_project / clean_project: local `name`
    is_clone,   \* create_project: parameter is_clone
    dirs,       \* filesystem: entries of <repository-root>/<name>, {} when absent
    ws,         \* filesystem: content of <workspace-root>/<name>.code-workspace
    dirs0,      \* dirs when the invocation started
    ws0,        \* ws when the invocation started
    out,        \* lines written to the console, in order
    cmds,       \* shell commands handed to subprocess.run, in order
    access,     \* filesystem objects looked at or touched so far
    exitCode,   \* process exit status
    file,       \* read_lines: text of the file, or NoFile
    callback,   \* read_lines: match_callback
    result      \* read_lines: returned value

vars == <<arg, clean, config, pc, kind, name, is_clone, dirs, ws, dirs0, ws0,
          out, cmds, access, exitCode, file, callback, result>>

scaffoldVars == <<arg, clean, config, kind, name, is_clone, dirs, ws, dirs0, ws0,
                  out, cmds, access, exitCode>>

readVars == <<file, callback, result>>

----------------------------------------------------------------------------
(* Bounds *)

\* longest text after the optional scheme of a CLI argument, in Spec
MaxArgLen == 2

\* longest text after the scheme of a URL, in SpecName
MaxUrlLen == 5

\* longest file text, in SpecRead
MaxFileLen == 5

BoundedSeq(S, n) == UNION {[1..k -> S] : k \in 0..n}

----------------------------------------------------------------------------
(* Strings and patterns *)

\* characters the arguments are drawn from: a name character, the extension
\* dot, the path separator and a whitespace character
Alphabet == {"a", ".", "/", " "}

\* [a-zA-Z0-9-_]
NameChars == {"a", "b", "A", "Z", "0", "9", "-", "_"}

\* \s
Whitespace == {" ", "\t", "\n"}

Schemes == { <<"h","t","t","p",":","/","/">>,
             <<"h","t","t","p","s",":","/","/">>,
             <<"g","i","t",":","/","/">> }

StartsWith(s, p) == Len(s) >= Len(p) /\ SubSeq(s, 1, Len(p)) = p

\* re.match(ARGS_PROJECT_NAME_PATTERN, s)
IsName(s) == Len(s) >= 1 /\ \A i \in 1..Len(s) : s[i] \in NameChars

\* re.match(ARGS_PROJECT_URL_PATTERN, s)
IsURL(s) ==
    \E p \in Schemes :
        /\ StartsWith(s, p)
        /\ Len(s) > Len(p)
        /\ \A i \in (Len(p) + 1)..Len(s) : s[i] \notin Whitespace

\* positions of character c in s
Positions(s, c) == {i \in 1..Len(s) : s[i] = c}

Max(S) == CHOOSE x \in S : \A y \in S : y <= x
Min(S) == CHOOSE x \in S : \A y \in S : x <= y

\* s.split(c)[-1]
LastPart(s, c) ==
    IF Positions(s, c) = {} THEN s
    ELSE SubSeq(s, Max(Positions(s, c)) + 1, Len(s))

\* s.split(c)[0]
FirstPart(s, c) ==
    IF Positions(s, c) = {} THEN s
    ELSE SubSeq(s, 1, Min(Positions(s, c)) - 1)

\* link.split('/')[-1].split('.')[0]
DeriveName(link) == FirstPart(LastPart(link, "/"), ".")

\* directory_path.joinpath(name), as the string f'{project_dir}'
ProjectDir(n) == IF n = <<>> THEN <<"R">> ELSE <<"R", "/">> \o n

\* workspace_path.joinpath(f'{name}.code-workspace')
WorkspaceFile(n) == <<"W", "/">> \o n \o <<".code-workspace">>

----------------------------------------------------------------------------
(* The inputs of an invocation *)

Tails == BoundedSeq(Alphabet, MaxArgLen)

Args == Tails \cup {p \o t : p \in Schemes, t \in Tails}

\* every project name an argument can lead to; <<>> is the repository root
\* itself (a URL whose last segment starts with a dot or is empty)
ProjectNames ==
    {a \in Args : IsName(a)} \cup {DeriveName(a) : a \in {x \in Args : IsURL(x)}}

ConfigStates == {"absent", "malformed", "incomplete", "ok"}

Absent == [kind |-> "absent", path |-> <<>>, name |-> <<>>]
Other == [kind |-> "other", path |-> <<>>, name |-> <<>>]

\* workspace_data
WorkspaceData(n) == [kind |-> "folders", path |-> ProjectDir(n), name |-> n]

\* a directory is the set of its entries, "." being the directory itself
NoDir == {}
EmptyDir == {"."}
UserDir == {".", "data"}

Line(k, what, path) == [kind |-> k, what |-> what, path |-> path]

Command(c, link, dir) == [cmd |-> c, link |-> link, dir |-> dir]

NoFile == [exists |-> FALSE, text |-> <<>>]
NotCalled == [returned |-> FALSE, found |-> FALSE, lines |-> <<>>]

----------------------------------------------------------------------------
(* One invocation of vscode-project.py *)

DirNames == ProjectNames \cup {<<>>}

\* a child of the repository root exists only if the root does
RootHolds(d) == (\E n \in DirNames : n # <<>> /\ d[n] # NoDir) => d[<<>>] # NoDir

Init ==
    /\ arg \in Args
    /\ clean \in BOOLEAN
    /\ config \in ConfigStates
    /\ pc = "main"
    /\ kind = "none"
    /\ name = <<>>
    /\ is_clone = FALSE
    /\ dirs \in {d \in [DirNames -> {NoDir, UserDir}] : RootHolds(d)}
    /\ ws \in [DirNames -> {Absent, Other}]
    /\ dirs0 = dirs
    /\ ws0 = ws
    /\ out = <<>>
    /\ cmds = <<>>
    /\ access = {}
    /\ exitCode = 0
    /\ file = NoFile
    /\ callback = "default"
    /\ result = NotCalled

\* error_exit(msg): log the message and exit(1)
error_exit(what, path) ==
    /\ out' = Append(out, Line("error", what, path))
    /\ exitCode' = 1
    /\ pc' = "exited"

\* an exception nothing catches: the interpreter prints a traceback and exits 1
Uncaught(what) ==
    /\ out' = Append(out, Line("traceback", what, <<>>))
    /\ exitCode' = 1
    /\ pc' = "exited"

\* main, line 184: config = read_config()
read_config ==
    /\ pc = "main"
    /\ access' = access \cup {"config"}
    /\ IF config = "absent"
         THEN error_exit("FILE_NOT_FOUND", <<"config.ini">>)
         ELSE IF config = "malformed"
                THEN error_exit("CONFIG_ERROR", <<"config.ini">>)
                ELSE /\ pc' = "dispatch"
                     /\ UNCHANGED <<out, exitCode>>
    /\ UNCHANGED <<arg, clean, config, kind, name, is_clone, dirs, ws, dirs0, ws0, cmds>>
    /\ UNCHANGED readVars

\* Dispatch with the clean branch testing the URL pattern as the create branch does
Dispatch_clean_accepts_url ==
    /\ pc = "dispatch"
    /\ IF IsName(arg)
         THEN /\ kind' = "name"
              /\ name' = arg
              /\ is_clone' = FALSE
              /\ pc' = IF clean THEN "clean_project" ELSE "create_project"
              /\ UNCHANGED <<out, exitCode>>
         ELSE IF IsURL(arg)
                THEN /\ kind' = "url"
                     /\ name' = IF clean THEN DeriveName(arg) ELSE arg
                     /\ is_clone' = ~clean
                     /\ pc' = IF clean THEN "clean_project" ELSE "create_project"
                     /\ UNCHANGED <<out, exitCode>>
                ELSE /\ kind' = "invalid"
                     /\ error_exit("usage", arg)
                     /\ UNCHANGED <<name, is_clone>>
    /\ UNCHANGED <<arg, clean, config, dirs, ws, dirs0, ws0, cmds, access>>
    /\ UNCHANGED readVars

\* main, lines 186-201: the branch on args.clean and the two patterns
Dispatch ==
    /\ pc = "dispatch"
    /\ IF clean
         THEN IF IsName(arg)
                THEN /\ kind' = "name"
                     /\ name' = arg
                     /\ is_clone' = FALSE
                     /\ pc' = "clean_project"
                     /\ UNCHANGED <<out, exitCode>>
                ELSE /\ kind' = "invalid"
                     /\ error_exit("usage", arg)
                     /\ UNCHANGED <<name, is_clone>>
         ELSE IF IsName(arg)
                THEN /\ kind' = "name"
                     /\ name' = arg
                     /\ is_clone' = FALSE
                     /\ pc' = "create_project"
                     /\ UNCHANGED <<out, exitCode>>
                ELSE IF IsURL(arg)
                       THEN /\ kind' = "url"
                            /\ name' = arg
                            /\ is_clone' = TRUE
                            /\ pc' = "create_project"
                            /\ UNCHANGED <<out, exitCode>>
                       ELSE /\ kind' = "invalid"
                            /\ error_exit("usage", arg)
                            /\ UNCHANGED <<name, is_clone>>
    /\ UNCHANGED <<arg, clean, config, dirs, ws, dirs0, ws0, cmds, access>>
    /\ UNCHANGED readVars

\* create_project without the test of line 109: an existing directory is reused
create_project_no_check ==
    /\ pc = "create_project"
    /\ LET n == IF is_clone THEN DeriveName(name) ELSE name IN
         /\ name' = n
         /\ IF config = "incomplete"
              THEN /\ Uncaught("NoSectionError")
                   /\ UNCHANGED access
              ELSE /\ access' = access \cup {"project_dir"}
                   /\ pc' = "populate"
                   /\ UNCHANGED <<out, exitCode>>
    /\ UNCHANGED <<arg, clean, config, kind, is_clone, dirs, ws, dirs0, ws0, cmds>>
    /\ UNCHANGED readVars

\* create_project, lines 90-109 and 117-118: derive the name, read the two
\* roots from the configuration, test whether the project directory exists
create_project ==
    /\ pc = "create_project"
    /\ LET n == IF is_clone THEN DeriveName(name) ELSE name IN
         /\ name' = n
         /\ IF config = "incomplete"
              THEN /\ Uncaught("NoSectionError")
                   /\ UNCHANGED access
              ELSE /\ access' = access \cup {"project_dir"}
                   /\ IF dirs[n] # NoDir
                        THEN error_exit("PROJECT_EXISTS", n)
                        ELSE /\ pc' = "populate"
                             /\ UNCHANGED <<out, exitCode>>
    /\ UNCHANGED <<arg, clean, config, kind, is_clone, dirs, ws, dirs0, ws0, cmds>>
    /\ UNCHANGED readVars

\* project_dir.mkdir(parents=True, exist_ok=True)
Mkdir(d, n) == [d EXCEPT ![n] = IF @ = NoDir THEN EmptyDir ELSE @,
                         ![<<>>] = IF @ = NoDir THEN EmptyDir ELSE @]

\* Populate with execute_command not catching CalledProcessError
Populate_uncaught(ok) ==
    /\ pc = "populate"
    /\ cmds' = Append(cmds, Command(IF is_clone THEN "git clone" ELSE "git init",
                                    IF is_clone THEN arg ELSE <<>>, ProjectDir(name)))
    /\ IF ok
         THEN /\ dirs' = [Mkdir(dirs, name) EXCEPT ![name] =
                            @ \cup (IF is_clone THEN {".git", "worktree"}
                                    ELSE {".git", "README.md", ".gitignore"})]
              /\ pc' = "write_workspace"
              /\ UNCHANGED <<out, exitCode>>
         ELSE /\ dirs' = IF is_clone THEN dirs ELSE Mkdir(dirs, name)
              /\ Uncaught("CalledProcessError")
    /\ UNCHANGED <<arg, clean, config, kind, name, is_clone, ws, dirs0, ws0, access>>
    /\ UNCHANGED readVars

\* create_project, lines 110-116 with execute_command, lines 52-56: ok is
\* whether the git command exits 0
Populate(ok) ==
    /\ pc = "populate"
    /\ IF ~is_clone
         THEN /\ cmds' = Append(cmds, Command("git init", <<>>, ProjectDir(name)))
              /\ dirs' = [Mkdir(dirs, name) EXCEPT ![name] =
                            @ \cup (IF ok THEN {".git"} ELSE {})
                              \cup {"README.md", ".gitignore"}]
         ELSE /\ cmds' = Append(cmds, Command("git clone", arg, ProjectDir(name)))
              /\ dirs' = IF ok
                           THEN [Mkdir(dirs, name) EXCEPT ![name] =
                                    @ \cup {".git", "worktree"}]
                           ELSE dirs
    /\ out' = IF ok THEN out
              ELSE Append(out, Line("print", "Command execution failed", <<>>))
    /\ pc' = "write_workspace"
    /\ UNCHANGED <<arg, clean, config, kind, name, is_clone, ws, dirs0, ws0,
                   access, exitCode>>
    /\ UNCHANGED readVars

\* write_workspace keeping a descriptor that is already there
write_workspace_if_absent ==
    /\ pc = "write_workspace"
    /\ ws' = IF ws[name] = Absent THEN [ws EXCEPT ![name] = WorkspaceData(name)] ELSE ws
    /\ access' = access \cup {"workspace_file"}
    /\ out' = out \o << Line("action", "add +", ProjectDir(name)),
                        Line("action", "add +", WorkspaceFile(name)) >>
    /\ pc' = "exited"
    /\ UNCHANGED <<arg, clean, config, kind, name, is_clone, dirs, dirs0, ws0,
                   cmds, exitCode>>
    /\ UNCHANGED readVars

\* create_project, lines 120-124: write the descriptor, report both artifacts
write_workspace ==
    /\ pc = "write_workspace"
    /\ ws' = [ws EXCEPT ![name] = WorkspaceData(name)]
    /\ access' = access \cup {"workspace_file"}
    /\ out' = out \o << Line("action", "add +", ProjectDir(name)),
                        Line("action", "add +", WorkspaceFile(name)) >>
    /\ pc' = "exited"
    /\ UNCHANGED <<arg, clean, config, kind, name, is_clone, dirs, dirs0, ws0,
                   cmds, exitCode>>
    /\ UNCHANGED readVars

\* clean_project failing when either artifact is missing (`or` for `and`, line 142)
clean_project_either_missing ==
    /\ pc = "clean_project"
    /\ IF config = "incomplete"
         THEN /\ Uncaught("NoSectionError")
              /\ UNCHANGED access
         ELSE /\ access' = access \cup {"project_dir"}
                              \cup (IF dirs[name] # NoDir THEN {"workspace_file"} ELSE {})
              /\ IF dirs[name] = NoDir \/ ws[name] = Absent
                   THEN error_exit("FILE_NOT_FOUND", name)
                   ELSE /\ pc' = "remove_dir"
                        /\ UNCHANGED <<out, exitCode>>
    /\ UNCHANGED <<arg, clean, config, kind, name, is_clone, dirs, ws, dirs0, ws0, cmds>>
    /\ UNCHANGED readVars

\* clean_project without the test of lines 142-143
clean_project_no_check ==
    /\ pc = "clean_project"
    /\ IF config = "incomplete"
         THEN /\ Uncaught("NoSectionError")
              /\ UNCHANGED access
         ELSE /\ access' = access
              /\ pc' = "remove_dir"
              /\ UNCHANGED <<out, exitCode>>
    /\ UNCHANGED <<arg, clean, config, kind, name, is_clone, dirs, ws, dirs0, ws0, cmds>>
    /\ UNCHANGED readVars

\* clean_project, lines 136-143: read the roots, fail when neither artifact exists
clean_project ==
    /\ pc = "clean_project"
    /\ IF config = "incomplete"
         THEN /\ Uncaught("NoSectionError")
              /\ UNCHANGED access
         ELSE /\ access' = access \cup {"project_dir"}
                              \cup (IF dirs[name] = NoDir THEN {"workspace_file"} ELSE {})
              /\ IF dirs[name] = NoDir /\ ws[name] = Absent
                   THEN error_exit("FILE_NOT_FOUND", name)
                   ELSE /\ pc' = "remove_dir"
                        /\ UNCHANGED <<out, exitCode>>
    /\ UNCHANGED <<arg, clean, config, kind, name, is_clone, dirs, ws, dirs0, ws0, cmds>>
    /\ UNCHANGED readVars

\* remove_dir logging the OSError and going on to the descriptor
remove_dir_keep_going(fails) ==
    /\ pc = "remove_dir"
    /\ access' = access \cup {"project_dir"}
    /\ IF dirs[name] # NoDir
         THEN IF fails
                THEN /\ \E left \in SUBSET (dirs[name] \ {"."}) :
                            dirs' = [dirs EXCEPT ![name] = {"."} \cup left]
                     /\ out' = Append(out, Line("error", "NOT clean", name))
                     /\ exitCode' = 1
                ELSE /\ dirs' = [dirs EXCEPT ![name] = NoDir]
                     /\ UNCHANGED <<out, exitCode>>
         ELSE /\ fails = FALSE
              /\ UNCHANGED <<dirs, out, exitCode>>
    /\ pc' = "remove_workspace"
    /\ UNCHANGED <<arg, clean, config, kind, name, is_clone, ws, dirs0, ws0, cmds>>
    /\ UNCHANGED readVars

\* clean_project, lines 145-149: shutil.rmtree(project_dir); an OSError leaves
\* the directory with some of its entries
remove_dir(fails) ==
    /\ pc = "remove_dir"
    /\ access' = access \cup {"project_dir"}
    /\ IF dirs[name] # NoDir
         THEN IF fails
                THEN /\ \E left \in SUBSET (dirs[name] \ {"."}) :
                            dirs' = [dirs EXCEPT ![name] = {"."} \cup left]
                     /\ error_exit("NOT clean", name)
                ELSE /\ dirs' = [dirs EXCEPT ![name] = NoDir]
                     /\ pc' = "remove_workspace"
                     /\ UNCHANGED <<out, exitCode>>
         ELSE /\ fails = FALSE
              /\ pc' = "remove_workspace"
              /\ UNCHANGED <<dirs, out, exitCode>>
    /\ UNCHANGED <<arg, clean, config, kind, name, is_clone, ws, dirs0, ws0, cmds>>
    /\ UNCHANGED readVars

\* clean_project, lines 151-155: workspace_file.unlink()
remove_workspace(fails) ==
    /\ pc = "remove_workspace"
    /\ access' = access \cup {"workspace_file"}
    /\ IF ws[name] # Absent
         THEN IF fails
                THEN /\ error_exit("NOT clean", WorkspaceFile(name))
                     /\ UNCHANGED ws
                ELSE /\ ws' = [ws EXCEPT ![name] = Absent]
                     /\ pc' = "report_clean"
                     /\ UNCHANGED <<out, exitCode>>
         ELSE /\ fails = FALSE
              /\ pc' = "report_clean"
              /\ UNCHANGED <<ws, out, exitCode>>
    /\ UNCHANGED <<arg, clean, config, kind, name, is_clone, dirs, dirs0, ws0, cmds>>
    /\ UNCHANGED readVars

\* clean_project, lines 157-158: report both artifacts
report_clean ==
    /\ pc = "report_clean"
    /\ out' = out \o << Line("action", "clean -", ProjectDir(name)),
                        Line("action", "clean -", WorkspaceFile(name)) >>
    /\ pc' = "exited"
    /\ UNCHANGED <<arg, clean, config, kind, name, is_clone, dirs, ws, dirs0, ws0,
                   cmds, access, exitCode>>
    /\ UNCHANGED readVars

Next ==
    \/ read_config
    \/ Dispatch
    \/ create_project
    \/ \E ok \in BOOLEAN : Populate(ok)
    \/ write_workspace
    \/ clean_project
    \/ \E fails \in BOOLEAN : remove_dir(fails)
    \/ \E fails \in BOOLEAN : remove_workspace(fails)
    \/ report_clean

Spec == Init /\ [][Next]_vars

TypeOK ==
    /\ arg \in Args
    /\ clean \in BOOLEAN
    /\ config \in ConfigStates
    /\ pc \in {"main", "dispatch", "create_project", "populate", "write_workspace",
               "clean_project", "remove_dir", "remove_workspace", "report_clean",
               "exited"}
    /\ kind \in {"none", "name", "url", "invalid"}
    /\ is_clone \in BOOLEAN
    /\ DOMAIN dirs = DirNames
    /\ DOMAIN ws = DirNames
    /\ exitCode \in {0, 1}
    /\ access \subseteq {"config", "project_dir", "workspace_file"}

----------------------------------------------------------------------------
(* create_project's name derivation on longer URLs *)

UrlAlphabet == {"a", ".", "/"}

\* a file name made of parts separated by single dots, as in bar.git
DottedName(seg) ==
    /\ seg # <<>>
    /\ seg[1] # "." /\ seg[Len(seg)] # "."
    /\ \A i \in 1..(Len(seg) - 1) : ~(seg[i] = "." /\ seg[i + 1] = ".")

\* the accepted URLs that end in such a file name
Urls == {u \in {p \o t : p \in Schemes, t \in BoundedSeq(UrlAlphabet, MaxUrlLen)} :
            IsURL(u) /\ DottedName(LastPart(u, "/"))}

InitName ==
    /\ arg \in Urls
    /\ clean = FALSE
    /\ config = "ok"
    /\ pc = "derive"
    /\ kind = "url"
    /\ name = arg
    /\ is_clone = TRUE
    /\ dirs = [n \in {<<>>} |-> NoDir]
    /\ ws = [n \in {<<>>} |-> Absent]
    /\ dirs0 = dirs
    /\ ws0 = ws
    /\ out = <<>>
    /\ cmds = <<>>
    /\ access = {}
    /\ exitCode = 0
    /\ file = NoFile
    /\ callback = "default"
    /\ result = NotCalled

\* create_project, lines 90-92
derive_name ==
    /\ pc = "derive"
    /\ is_clone
    /\ name' = DeriveName(name)
    /\ pc' = "derived"
    /\ UNCHANGED <<arg, clean, config, kind, is_clone, dirs, ws, dirs0, ws0,
                   out, cmds, access, exitCode>>
    /\ UNCHANGED readVars

NextName == derive_name

SpecName == InitName /\ [][NextName]_vars

----------------------------------------------------------------------------
(* match-reader.py: read_lines *)

FileChars == {"h", "x", "\n"}

Callbacks == {"default", "test_func", "hello"}

Range(s) == {s[i] : i \in 1..Len(s)}

\* the callbacks of the script: the default lambda line: True, test_func,
\* and lambda line: "hello" in line (here: the line holds an "h")
Match(cb, line) ==
    CASE cb = "default" -> TRUE
      [] cb = "test_func" -> FALSE
      [] cb = "hello" -> "h" \in Range(line)

\* for line in f: the text cut after each newline
RECURSIVE FileLines(_)
FileLines(text) ==
    IF text = <<>> THEN <<>>
    ELSE LET nl == Positions(text, "\n")
             k == IF nl = {} THEN Len(text) ELSE Min(nl)
         IN <<SubSeq(text, 1, k)>> \o FileLines(SubSeq(text, k + 1, Len(text)))

\* StripLine cutting the last character of every line
StripLine_always(line) == SubSeq(line, 1, Len(line) - 1)

\* line[:-1] if '\n' in line else line
StripLine(line) ==
    IF "\n" \in Range(line) THEN SubSeq(line, 1, Len(line) - 1) ELSE line

\* read_lines(file_path, match_callback), lines 39-49
read_lines(f, cb) ==
    IF ~f.exists
      THEN [returned |-> TRUE, found |-> FALSE, lines |-> <<>>]
      ELSE LET kept == SelectSeq(FileLines(f.text), LAMBDA l : Match(cb, l))
           IN [returned |-> TRUE, found |-> TRUE,
               lines |-> [i \in 1..Len(kept) |-> StripLine(kept[i])]]

InitRead ==
    /\ file \in {NoFile} \cup
                {[exists |-> TRUE, text |-> t] : t \in BoundedSeq(FileChars, MaxFileLen)}
    /\ callback \in Callbacks
    /\ result = NotCalled
    /\ pc = "read_lines"
    /\ arg = <<>>
    /\ clean = FALSE
    /\ config = "ok"
    /\ kind = "none"
    /\ name = <<>>
    /\ is_clone = FALSE
    /\ dirs = [n \in {<<>>} |-> NoDir]
    /\ ws = [n \in {<<>>} |-> Absent]
    /\ dirs0 = dirs
    /\ ws0 = ws
    /\ out = <<>>
    /\ cmds = <<>>
    /\ access = {}
    /\ exitCode = 0

\* a call of read_lines, as in lines 68-71
call_read_lines ==
    /\ pc = "read_lines"
    /\ result' = read_lines(file, callback)
    /\ pc' = "returned"
    /\ UNCHANGED <<file, callback>>
    /\ UNCHANGED scaffoldVars

NextRead == call_read_lines

SpecRead == InitRead /\ [][NextRead]_vars

----------------------------------------------------------------------------
(* Properties of the scaffolder *)

\* the name create_project works on for a valid argument
CreateTarget == IF IsName(arg) THEN arg ELSE DeriveName(arg)

FsUnchanged == dirs = dirs0 /\ ws = ws0

\* how many times print_action wrote `what path`
CountLines(what, path) ==
    Cardinality({i \in 1..Len(out) : out[i] = Line("action", what, path)})

\* C1: when <repository-root>/<name> exists before a create invocation (bare
\* name or URL), the invocation never changes the filesystem, runs no command,
\* never reaches the steps that populate or write, keeps running until it
\* exits, and exits non-zero.
C1_ExistingProjectUntouched ==
    (~clean /\ (IsName(arg) \/ IsURL(arg)) /\ dirs0[CreateTarget] # NoDir) =>
        /\ FsUnchanged
        /\ cmds = <<>>
        /\ pc \notin {"populate", "write_workspace"}
        /\ (pc # "exited" => ENABLED Next)
        /\ (pc = "exited" => exitCode # 0)

C1_Witness ==
    /\ pc = "exited"
    /\ ~clean
    /\ is_clone
    /\ dirs0[name] # NoDir
    /\ out = <<Line("error", "PROJECT_EXISTS", name)>>
    /\ exitCode = 1

\* C2: a create invocation for a bare name n whose directory did not exist,
\* under a configuration giving both roots, ends with the directory existing
\* and the descriptor holding exactly {"folders":[{"path":"R/n","name":n}]},
\* whatever the descriptor held before.
C2_CreateWritesDescriptor ==
    (pc = "exited" /\ ~clean /\ IsName(arg) /\ config = "ok" /\ dirs0[arg] = NoDir) =>
        /\ "." \in dirs[arg]
        /\ ws[arg] = [kind |-> "folders", path |-> <<"R", "/">> \o arg, name |-> arg]

C2_Witness ==
    /\ pc = "exited"
    /\ ~clean
    /\ IsName(arg)
    /\ dirs0[arg] = NoDir
    /\ ws0[arg] = Other
    /\ "README.md" \in dirs[arg]
    /\ ws[arg].path = <<"R", "/">> \o arg

\* some rmtree or unlink raised OSError
DeleteFailed == \E i \in 1..Len(out) : out[i].kind = "error" /\ out[i].what = "NOT clean"

\* C3: a clean invocation for a bare name with exactly one of the two
\* artifacts present, whose deletion raises no OSError, removes that artifact,
\* leaves everything else as it was and exits 0; and after any clean that
\* exits 0 neither artifact exists.
C3_CleanToleratesPartial ==
    /\ (/\ pc = "exited" /\ clean /\ IsName(arg) /\ config = "ok"
        /\ (dirs0[arg] = NoDir) # (ws0[arg] = Absent)
        /\ ~DeleteFailed) =>
            /\ exitCode = 0
            /\ dirs = [dirs0 EXCEPT ![arg] = NoDir]
            /\ ws = [ws0 EXCEPT ![arg] = Absent]
    /\ (pc = "exited" /\ clean /\ exitCode = 0) =>
            /\ IsName(arg)
            /\ dirs[arg] = NoDir
            /\ ws[arg] = Absent

C3_Witness ==
    /\ pc = "exited"
    /\ clean
    /\ exitCode = 0
    /\ dirs0[name] = NoDir
    /\ ws0[name] = Other
    /\ ws[name] = Absent
    /\ dirs = dirs0

\* C4: a clean invocation for a bare name with neither artifact present never
\* changes the filesystem and exits non-zero.
C4_CleanNothingFails ==
    (clean /\ IsName(arg) /\ dirs0[arg] = NoDir /\ ws0[arg] = Absent) =>
        /\ FsUnchanged
        /\ cmds = <<>>
        /\ (pc # "exited" => ENABLED Next)
        /\ (pc = "exited" => exitCode # 0)

C4_Witness ==
    /\ pc = "exited"
    /\ clean
    /\ out = <<Line("error", "FILE_NOT_FOUND", arg)>>
    /\ exitCode = 1
    /\ FsUnchanged

\* the class of the argument: bare name first, then URL (create mode only)
Classify ==
    IF IsName(arg) THEN "name"
    ELSE IF ~clean /\ IsURL(arg) THEN "url"
    ELSE "invalid"

\* C5 as claimed: the argument gets exactly one class before any side effect,
\* and an invalid argument ends the invocation with the usage message and a
\* non-zero exit without any filesystem access at any point.
C5_Original ==
    /\ kind # "none" => kind = Classify
    /\ kind = "none" => FsUnchanged /\ cmds = <<>>
    /\ Classify = "invalid" =>
         /\ access = {}
         /\ (pc = "exited" => exitCode # 0 /\ out = <<Line("error", "usage", arg)>>)

\* C5 amended: the argument gets exactly one class after the configuration
\* file has been read and before any project artifact is looked at or any side
\* effect occurs; an invalid argument ends the invocation with a non-zero
\* exit, nothing modified, no command run and no filesystem access other than
\* reading the configuration file; the message is the usage message when the
\* configuration file could be read and the configuration error otherwise.
C5_ClassifiedAfterConfig ==
    /\ kind # "none" => kind = Classify /\ "config" \in access
    /\ kind = "none" => FsUnchanged /\ cmds = <<>> /\ access \subseteq {"config"}
    /\ Classify = "invalid" =>
         /\ access \subseteq {"config"}
         /\ FsUnchanged
         /\ cmds = <<>>
         /\ (pc # "exited" => ENABLED Next)
         /\ pc = "exited" =>
              /\ exitCode # 0
              /\ access = {"config"}
              /\ config \in {"ok", "incomplete"} =>
                    out = <<Line("error", "usage", arg)>>
              /\ config = "absent" =>
                    out = <<Line("error", "FILE_NOT_FOUND", <<"config.ini">>)>>
              /\ config = "malformed" =>
                    out = <<Line("error", "CONFIG_ERROR", <<"config.ini">>)>>

C5_Witness ==
    /\ pc = "exited"
    /\ clean
    /\ IsURL(arg)
    /\ kind = "invalid"
    /\ access = {"config"}
    /\ out = <<Line("error", "usage", arg)>>

\* a line of the console output names the path
Mentions(path) == \E i \in 1..Len(out) : out[i].path = path

\* C6 as claimed: a failed deletion is reported and the exit is non-zero, and
\* the other artifact is still handled and reported on.
C6_Original ==
    (pc = "exited" /\ clean /\ kind = "name" /\ config = "ok") =>
        /\ (dirs[name] # NoDir /\ ws0[name] # Absent) =>
              /\ exitCode # 0
              /\ Mentions(name)
              /\ Mentions(WorkspaceFile(name))
        /\ (ws[name] # Absent /\ dirs0[name] # NoDir) =>
              /\ exitCode # 0
              /\ Mentions(WorkspaceFile(name))
              /\ Mentions(ProjectDir(name)) \/ Mentions(name)

\* C6 amended: a failed deletion is reported for that artifact and ends the
\* invocation at once with exit 1.  When deleting the directory fails the
\* descriptor is not looked at, stays as it was and nothing is reported on
\* it; when deleting the descriptor fails the directory is already removed and
\* no `clean -` line is written for it.
C6_FailureEndsClean ==
    (pc = "exited" /\ clean /\ kind = "name" /\ config = "ok") =>
        /\ dirs[name] # NoDir =>
              /\ exitCode = 1
              /\ out = <<Line("error", "NOT clean", name)>>
              /\ ws = ws0
              /\ "workspace_file" \notin access
        /\ (dirs[name] = NoDir /\ ws[name] # Absent) =>
              /\ exitCode = 1
              /\ out = <<Line("error", "NOT clean", WorkspaceFile(name))>>
              /\ ws = ws0
              /\ dirs = [dirs0 EXCEPT ![name] = NoDir]

C6_Witness ==
    /\ pc = "exited"
    /\ clean
    /\ out = <<Line("error", "NOT clean", name)>>
    /\ dirs[name] # NoDir
    /\ ws0[name] # Absent
    /\ ws[name] = ws0[name]

\* C7 as claimed: at the end of a create or clean invocation there is exactly
\* one `add +` line per artifact added and one `clean -` line per artifact
\* removed, and none for an artifact neither added nor removed.
C7_OneLinePerArtifact ==
    (pc = "exited" /\ kind \in {"name", "url"} /\ config = "ok") =>
        /\ CountLines("add +", ProjectDir(name)) =
              (IF dirs0[name] = NoDir /\ dirs[name] # NoDir THEN 1 ELSE 0)
        /\ CountLines("add +", WorkspaceFile(name)) =
              (IF ws[name] = WorkspaceData(name) THEN 1 ELSE 0)
        /\ CountLines("clean -", ProjectDir(name)) =
              (IF dirs0[name] # NoDir /\ dirs[name] = NoDir THEN 1 ELSE 0)
        /\ CountLines("clean -", WorkspaceFile(name)) =
              (IF ws0[name] # Absent /\ ws[name] = Absent THEN 1 ELSE 0)

\* the git command was run and did not do its work
CommandFailed ==
    /\ cmds # <<>>
    /\ IF is_clone THEN dirs[name] = NoDir ELSE ".git" \notin dirs[name]

\* C10: when the git command of create exits non-zero, the failure is printed,
\* create goes on, writes the descriptor, reports both artifacts and exits 0.
C10_CreateContinuesAfterFailure ==
    (~clean /\ CommandFailed) =>
        /\ \E i \in 1..Len(out) : out[i] = Line("print", "Command execution failed", <<>>)
        /\ pc \in {"write_workspace", "exited"}
        /\ pc = "exited" =>
              /\ ws[name] = WorkspaceData(name)
              /\ exitCode = 0
              /\ CountLines("add +", WorkspaceFile(name)) = 1

C10_Witness ==
    /\ pc = "exited"
    /\ ~clean
    /\ is_clone
    /\ CommandFailed
    /\ dirs[name] = NoDir
    /\ ws[name].path = ProjectDir(name)

----------------------------------------------------------------------------
(* Properties of read_lines *)

\* the k-th smallest element of a set of numbers
Kth(S, k) == CHOOSE x \in S : Cardinality({y \in S : y <= x}) = k

Newlines == Positions(file.text, "\n")

\* the number of lines of the file: one per newline, and one more for text
\* after the last newline
LineCount ==
    Cardinality(Newlines) +
        (IF file.text # <<>> /\ file.text[Len(file.text)] # "\n" THEN 1 ELSE 0)

LineStart(i) == IF i = 1 THEN 1 ELSE Kth(Newlines, i - 1) + 1

\* the i-th line of the file as stored, its newline included
RawLine(i) ==
    SubSeq(file.text, LineStart(i),
           IF i <= Cardinality(Newlines) THEN Kth(Newlines, i) ELSE Len(file.text))

\* the i-th line of the file without its newline
BareLine(i) ==
    SubSeq(file.text, LineStart(i),
           IF i <= Cardinality(Newlines) THEN Kth(Newlines, i) - 1 ELSE Len(file.text))

\* the numbers of the lines the callback accepts, in file order
Accepted == SelectSeq([i \in 1..LineCount |-> i], LAMBDA i : Match(callback, RawLine(i)))

\* lines joined again, a newline after each but the last
RECURSIVE Join(_)
Join(ls) ==
    IF ls = <<>> THEN <<>>
    ELSE IF Len(ls) = 1 THEN ls[1]
    ELSE ls[1] \o <<"\n">> \o Join(Tail(ls))

\* C8: for an existing file, read_lines returns the lines the callback accepts,
\* each without its trailing newline and otherwise unchanged, in file order,
\* none dropped, duplicated or reordered; with the default callback it returns
\* every line, so that joining the result with newlines gives the file's text
\* back (up to the newline ending the file).
C8_ReadLinesFilters ==
    (pc = "returned" /\ file.exists) =>
        /\ result.found
        /\ result.lines = [k \in 1..Len(Accepted) |-> BareLine(Accepted[k])]
        /\ \A k \in 1..Len(result.lines) : "\n" \notin Range(result.lines[k])
        /\ callback = "default" =>
              /\ Len(result.lines) = LineCount
              /\ \/ Join(result.lines) = file.text
                 \/ Join(result.lines) \o <<"\n">> = file.text

C8_Witness ==
    /\ pc = "returned"
    /\ file.exists
    /\ callback = "hello"
    /\ LineCount = 3
    /\ Len(result.lines) = 2
    /\ result.lines[1] # result.lines[2]
    /\ file.text[Len(file.text)] # "\n"

----------------------------------------------------------------------------
(* Properties of the name derivation *)

\* a path segment without its file extension, as os.path.splitext cuts it:
\* at the last dot that has a character other than a dot before it
Stem(seg) ==
    LET cut == {i \in Positions(seg, ".") : \E j \in 1..(i - 1) : seg[j] # "."}
    IN IF cut = {} THEN seg ELSE SubSeq(seg, 1, Max(cut) - 1)

\* C9 as claimed: the name create derives from an accepted URL is the URL's
\* final path segment with its file extension stripped.
C9_NameIsStemOfLastSegment ==
    pc = "derived" => name = Stem(LastPart(arg, "/"))

====
